---- MODULE Spec2Model ----
(***************************************************************************)
(* Model of src/main.py: the configuration-language compiler               *)
(*   main():  text -> tokenize -> Parser(tokens).parse() -> to_xml         *)
(*                                                                         *)
(* A text is a sequence of one-character strings.  A Token is a record     *)
(* [type, value] whose type is the name of the regex group that matched    *)
(* and whose value is the matched characters.  A float is modelled by the  *)
(* exact rational it denotes, [n, d] in lowest terms with d > 0 (rounding, *)
(* overflow to inf and the sign of zero are not modelled).  A Python dict  *)
(* is modelled by the sequence of its [k, v] items in insertion order.     *)
(***************************************************************************)
EXTENDS Integers, Sequences, FiniteSets, TLC

VARIABLES text, tokens, pos, env, pc, error, root

vars == <<text, tokens, pos, env, pc, error, root>>

(***************************************************************************)
(* Lexer: TOKEN_REGEX and tokenize                                         *)
(***************************************************************************)

\* \d of the regex (ASCII digits)
Digit == {"0", "1", "2", "3", "4", "5", "6", "7", "8", "9"}

\* [a-z] of the regex
Lower ==
    {"a", "b", "c", "d", "e", "f", "g", "h", "i", "j", "k", "l", "m",
     "n", "o", "p", "q", "r", "s", "t", "u", "v", "w", "x", "y", "z"}

\* mutant of isspace: whitespace is never skipped
isspace_never(c) == FALSE

\* str.isspace() on one character
isspace(c) == c \in {" ", "\t", "\n", "\r", "\f"}

\* does the literal `lit` occur in `s` at 0-based offset p
LitAt(s, p, lit) ==
    /\ p + Len(lit) <= Len(s)
    /\ \A i \in 1..Len(lit) : s[p + i] = lit[i]

\* end of the greedy run of characters of class S starting at offset p
RECURSIVE RunEnd(_, _, _)
RunEnd(s, p, S) ==
    IF p < Len(s) /\ s[p + 1] \in S THEN RunEnd(s, p + 1, S) ELSE p

\* (?:\d+\.\d*|\.\d+|\d+) at offset p: the end of the match, or -1
MatchMantissa(s, p) ==
    LET d == RunEnd(s, p, Digit)
        f == RunEnd(s, p + 1, Digit)
    IN  IF d > p /\ d < Len(s) /\ s[d + 1] = "." THEN RunEnd(s, d + 1, Digit)
        ELSE IF p < Len(s) /\ s[p + 1] = "." /\ f > p + 1 THEN f
        ELSE IF d > p THEN d
        ELSE -1

\* (?:[eE][+-]?\d+)? at offset p: the end of the (possibly empty) match
MatchExponent(s, p) ==
    IF p < Len(s) /\ s[p + 1] \in {"e", "E"}
    THEN LET q == IF p + 1 < Len(s) /\ s[p + 2] \in {"+", "-"}
                  THEN p + 2 ELSE p + 1
             r == RunEnd(s, q, Digit)
         IN  IF r > q THEN r ELSE p
    ELSE p

\* group NUMBER at offset p: the end of the match, or -1
MatchNumber(s, p) ==
    LET q == IF p < Len(s) /\ s[p + 1] = "-" THEN p + 1 ELSE p
        m == MatchMantissa(s, q)
    IN  IF m = -1 THEN -1 ELSE MatchExponent(s, m)

NoMatch == [type |-> "", end |-> -1]

\* mutant of MatchWord: NAME is tried before FUNC
MatchWord_namefirst(s, p) ==
    IF RunEnd(s, p, Lower) > p
    THEN [type |-> "NAME", end |-> RunEnd(s, p, Lower)]
    ELSE NoMatch

\* the alternatives (?P<FUNC>abs|min) | (?P<NAME>[a-z]+), in that order
MatchWord(s, p) ==
    IF LitAt(s, p, <<"a", "b", "s">>) \/ LitAt(s, p, <<"m", "i", "n">>)
    THEN [type |-> "FUNC", end |-> p + 3]
    ELSE IF RunEnd(s, p, Lower) > p
    THEN [type |-> "NAME", end |-> RunEnd(s, p, Lower)]
    ELSE NoMatch

\* the one-character groups, in the order of the regex
MatchPunct(s, p) ==
    LET c == IF p < Len(s) THEN s[p + 1] ELSE ""
    IN  IF c = "(" THEN [type |-> "LPAREN", end |-> p + 1]
        ELSE IF c = ")" THEN [type |-> "RPAREN", end |-> p + 1]
        ELSE IF c = "[" THEN [type |-> "LBRACK", end |-> p + 1]
        ELSE IF c = "]" THEN [type |-> "RBRACK", end |-> p + 1]
        ELSE IF c = ":" THEN [type |-> "COLON", end |-> p + 1]
        ELSE IF c = "," THEN [type |-> "COMMA", end |-> p + 1]
        ELSE IF c = ";" THEN [type |-> "SEMICOLON", end |-> p + 1]
        ELSE IF c \in {"+", "-"} THEN [type |-> "OP", end |-> p + 1]
        ELSE NoMatch

\* TOKEN_REGEX.match(text, pos): the first alternative that matches
TOKEN_REGEX(s, p) ==
    IF MatchNumber(s, p) # -1
    THEN [type |-> "NUMBER", end |-> MatchNumber(s, p)]
    ELSE IF LitAt(s, p, <<":", "=">>) THEN [type |-> "ASSIGN", end |-> p + 2]
    ELSE IF MatchWord(s, p).end # -1 THEN MatchWord(s, p)
    ELSE MatchPunct(s, p)

Token(typ, val) == [type |-> typ, value |-> val]

\* the while loop of tokenize, from offset p with the tokens found so far
RECURSIVE tokenize_loop(_, _, _)
tokenize_loop(s, p, toks) ==
    IF p >= Len(s) THEN [err |-> "", tokens |-> toks]
    ELSE IF isspace(s[p + 1]) THEN tokenize_loop(s, p + 1, toks)
    ELSE LET m == TOKEN_REGEX(s, p)
         IN  IF m.end = -1
             THEN [err |-> "SyntaxError", tokens |-> toks]
             ELSE tokenize_loop(s, m.end,
                      Append(toks, Token(m.type, SubSeq(s, p + 1, m.end))))

tokenize(s) == tokenize_loop(s, 0, <<>>)

(***************************************************************************)
(* Values: float and dict                                                  *)
(***************************************************************************)

RECURSIVE GCD(_, _)
GCD(a, b) == IF b = 0 THEN a ELSE GCD(b, a % b)

Abs(x) == IF x < 0 THEN -x ELSE x

\* the float n/d, in lowest terms
Rat(n, d) ==
    LET g == GCD(Abs(n), d)
    IN  [t |-> "num", n |-> n \div g, d |-> d \div g]

\* a dict with the given items
Dict(items) == [t |-> "dict", items |-> items]

IsNum(v) == v.t = "num"
IsDict(v) == v.t = "dict"

RECURSIVE Pow10(_)
Pow10(k) == IF k = 0 THEN 1 ELSE 10 * Pow10(k - 1)

DigitVal(c) ==
    CHOOSE v \in 0..9 :
        <<"0", "1", "2", "3", "4", "5", "6", "7", "8", "9">>[v + 1] = c

\* the number a sequence of decimal digits denotes (0 for no digits)
RECURSIVE DigitsVal(_)
DigitsVal(ds) ==
    IF ds = <<>> THEN 0
    ELSE 10 * DigitsVal(SubSeq(ds, 1, Len(ds) - 1)) + DigitVal(ds[Len(ds)])

\* float(tok.value) for a literal the NUMBER group matched
float(lit) ==
    LET neg == lit[1] = "-"
        a == IF neg THEN 1 ELSE 0
        i == RunEnd(lit, a, Digit)
        hasDot == i < Len(lit) /\ lit[i + 1] = "."
        f == IF hasDot THEN RunEnd(lit, i + 1, Digit) ELSE i
        fracLen == IF hasDot THEN f - (i + 1) ELSE 0
        mant == DigitsVal(SubSeq(lit, a + 1, i)
                          \o (IF hasDot THEN SubSeq(lit, i + 2, f) ELSE <<>>))
        hasExp == f < Len(lit)
        es == IF hasExp /\ lit[f + 2] \in {"+", "-"} THEN f + 2 ELSE f + 1
        ex == IF hasExp THEN DigitsVal(SubSeq(lit, es + 1, Len(lit))) ELSE 0
        e10 == (IF hasExp /\ lit[f + 2] = "-" THEN -ex ELSE ex) - fracLen
        n == IF e10 >= 0 THEN mant * Pow10(e10) ELSE mant
        d == IF e10 >= 0 THEN 1 ELSE Pow10(-e10)
    IN  Rat(IF neg THEN -n ELSE n, d)

\* float arithmetic used by eval_expr
float_add(x, y) == Rat(x.n * y.d + y.n * x.d, x.d * y.d)
float_sub(x, y) == Rat(x.n * y.d - y.n * x.d, x.d * y.d)
float_lt(x, y) == x.n * y.d < y.n * x.d
float_abs(x) == Rat(Abs(x.n), x.d)

\* key in d
dict_contains(d, key) == \E i \in 1..Len(d) : d[i].k = key

\* d[key], for a key of d
dict_getitem(d, key) == d[CHOOSE i \in 1..Len(d) : d[i].k = key].v

\* mutant of dict_setitem: an overwritten key moves to the end
dict_setitem_moves(d, key, val) ==
    Append(SelectSeq(d, LAMBDA it : it.k # key), [k |-> key, v |-> val])

\* mutant of dict_setitem: the first value of a key is kept
dict_setitem_keeps(d, key, val) ==
    IF dict_contains(d, key) THEN d ELSE Append(d, [k |-> key, v |-> val])

\* d[key] = val: a new key is appended, a known key keeps its place
dict_setitem(d, key, val) ==
    IF dict_contains(d, key)
    THEN [i \in 1..Len(d) |->
             IF d[i].k = key THEN [k |-> key, v |-> val] ELSE d[i]]
    ELSE Append(d, [k |-> key, v |-> val])

\* list(d.keys())
dict_keys(d) == [i \in 1..Len(d) |-> d[i].k]

(***************************************************************************)
(* Parser                                                                  *)
(***************************************************************************)

\* the outcome of a parser method: the exception raised ("" for none), the
\* value of self.pos when it ended, and what it returned
Ok(p, v) == [err |-> "", pos |-> p, val |-> v]
Raise(e, p) == [err |-> e, pos |-> p, val |-> <<>>]

\* Parser.consume: self.peek() is None past the end of the tokens
consume(toks, p, typ) ==
    IF p < Len(toks) /\ toks[p + 1].type = typ
    THEN Ok(p + 1, toks[p + 1])
    ELSE Raise("SyntaxError", p)

\* sum(args) from the accumulator acc
RECURSIVE sum(_, _)
sum(args, acc) ==
    IF args = <<>> THEN [err |-> "", val |-> acc]
    ELSE IF IsDict(args[1]) THEN [err |-> "TypeError", val |-> <<>>]
    ELSE sum(Tail(args), float_add(acc, args[1]))

\* min(args) of a non-empty list, with the smallest item so far
RECURSIVE min(_, _)
min(args, best) ==
    IF args = <<>> THEN [err |-> "", val |-> best]
    ELSE IF IsDict(args[1]) \/ IsDict(best)
    THEN [err |-> "TypeError", val |-> <<>>]
    ELSE min(Tail(args), IF float_lt(args[1], best) THEN args[1] ELSE best)

\* mutant of eval_expr: '-' with one argument negates it
eval_expr_negates(op, args) ==
    IF op = <<"-">> /\ Len(args) = 1 /\ IsNum(args[1])
    THEN [err |-> "", val |-> float_sub(Rat(0, 1), args[1])]
    ELSE IF op = <<"+">> THEN sum(args, Rat(0, 1))
    ELSE IF args = <<>> THEN [err |-> "IndexError", val |-> <<>>]
    ELSE IF op = <<"-">>
    THEN LET r == sum(Tail(args), Rat(0, 1))
         IN  IF r.err # "" THEN r
             ELSE IF IsDict(args[1]) THEN [err |-> "TypeError", val |-> <<>>]
             ELSE [err |-> "", val |-> float_sub(args[1], r.val)]
    ELSE IF op = <<"a", "b", "s">>
    THEN IF IsDict(args[1]) THEN [err |-> "TypeError", val |-> <<>>]
         ELSE [err |-> "", val |-> float_abs(args[1])]
    ELSE min(Tail(args), args[1])

\* Parser.eval_expr
eval_expr(op, args) ==
    IF op = <<"+">> THEN sum(args, Rat(0, 1))
    ELSE IF op = <<"-">>
    THEN IF args = <<>> THEN [err |-> "IndexError", val |-> <<>>]
         ELSE LET r == sum(Tail(args), Rat(0, 1))
              IN  IF r.err # "" THEN r
                  ELSE IF IsDict(args[1])
                  THEN [err |-> "TypeError", val |-> <<>>]
                  ELSE [err |-> "", val |-> float_sub(args[1], r.val)]
    ELSE IF op = <<"a", "b", "s">>
    THEN IF args = <<>> THEN [err |-> "IndexError", val |-> <<>>]
         ELSE IF IsDict(args[1]) THEN [err |-> "TypeError", val |-> <<>>]
         ELSE [err |-> "", val |-> float_abs(args[1])]
    ELSE IF op = <<"m", "i", "n">>
    THEN IF args = <<>> THEN [err |-> "ValueError", val |-> <<>>]
         ELSE min(Tail(args), args[1])
    ELSE [err |-> "SyntaxError", val |-> <<>>]

RECURSIVE parse_value(_, _, _)
RECURSIVE parse_dict_loop(_, _, _, _)
RECURSIVE parse_expr_loop(_, _, _, _)

\* the while loop of parse_dict, with the dict d built so far
parse_dict_loop(toks, p, e, d) ==
    IF p >= Len(toks) THEN Raise("AttributeError", p)
    ELSE IF toks[p + 1].type = "RBRACK" THEN Ok(p, Dict(d))
    ELSE LET key == consume(toks, p, "NAME")
             col == consume(toks, key.pos, "COLON")
             val == parse_value(toks, col.pos, e)
             d2 == dict_setitem(d, key.val.value, val.val)
         IN  IF key.err # "" THEN key
             ELSE IF col.err # "" THEN col
             ELSE IF val.err # "" THEN val
             ELSE IF val.pos >= Len(toks) THEN Raise("AttributeError", val.pos)
             ELSE IF toks[val.pos + 1].type = "COMMA"
             THEN parse_dict_loop(toks, val.pos + 1, e, d2)
             ELSE parse_dict_loop(toks, val.pos, e, d2)

\* Parser.parse_dict
parse_dict(toks, p, e) ==
    LET lp == consume(toks, p, "LPAREN")
        lb == consume(toks, lp.pos, "LBRACK")
        body == parse_dict_loop(toks, lb.pos, e, <<>>)
        rb == consume(toks, body.pos, "RBRACK")
        rp == consume(toks, rb.pos, "RPAREN")
    IN  IF lp.err # "" THEN lp
        ELSE IF lb.err # "" THEN lb
        ELSE IF body.err # "" THEN body
        ELSE IF rb.err # "" THEN rb
        ELSE IF rp.err # "" THEN rp
        ELSE Ok(rp.pos, body.val)

\* the while loop of parse_expr, with the args collected so far
parse_expr_loop(toks, p, e, args) ==
    IF p >= Len(toks) THEN Raise("AttributeError", p)
    ELSE IF toks[p + 1].type = "RPAREN" THEN Ok(p, args)
    ELSE LET val == parse_value(toks, p, e)
         IN  IF val.err # "" THEN val
             ELSE parse_expr_loop(toks, val.pos, e, Append(args, val.val))

\* Parser.parse_expr
parse_expr(toks, p, e) ==
    LET lp == consume(toks, p, "LPAREN")
        op == IF lp.pos >= Len(toks) THEN Raise("AttributeError", lp.pos)
              ELSE IF toks[lp.pos + 1].type = "OP"
              THEN consume(toks, lp.pos, "OP")
              ELSE IF toks[lp.pos + 1].type = "FUNC"
              THEN consume(toks, lp.pos, "FUNC")
              ELSE Raise("SyntaxError", lp.pos)
        body == parse_expr_loop(toks, op.pos, e, <<>>)
        rp == consume(toks, body.pos, "RPAREN")
        res == eval_expr(op.val.value, body.val)
    IN  IF lp.err # "" THEN lp
        ELSE IF op.err # "" THEN op
        ELSE IF body.err # "" THEN body
        ELSE IF rp.err # "" THEN rp
        ELSE IF res.err # "" THEN Raise(res.err, rp.pos)
        ELSE Ok(rp.pos, res.val)

\* Parser.parse_value
parse_value(toks, p, e) ==
    IF p >= Len(toks) THEN Raise("AttributeError", p)
    ELSE IF toks[p + 1].type = "NUMBER" THEN Ok(p + 1, float(toks[p + 1].value))
    ELSE IF toks[p + 1].type = "NAME"
    THEN IF ~dict_contains(e, toks[p + 1].value) THEN Raise("NameError", p + 1)
         ELSE Ok(p + 1, dict_getitem(e, toks[p + 1].value))
    ELSE IF toks[p + 1].type = "LPAREN"
    THEN IF p + 1 >= Len(toks) THEN Raise("IndexError", p)
         ELSE IF toks[p + 2].type = "LBRACK" THEN parse_dict(toks, p, e)
         ELSE parse_expr(toks, p, e)
    ELSE Raise("SyntaxError", p)

\* mutant of parse_assignment: the name is bound before its value is parsed
parse_assignment_binds_first(toks, p, e) ==
    LET name == consume(toks, p, "NAME")
        asg == consume(toks, name.pos, "ASSIGN")
        val == parse_value(toks, asg.pos,
                           dict_setitem(e, name.val.value, Rat(0, 1)))
        semi == consume(toks, val.pos, "SEMICOLON")
    IN  IF name.err # "" THEN name
        ELSE IF asg.err # "" THEN asg
        ELSE IF val.err # "" THEN val
        ELSE IF semi.err # "" THEN semi
        ELSE Ok(semi.pos, dict_setitem(e, name.val.value, val.val))

\* Parser.parse_assignment; val is self.env after it
parse_assignment(toks, p, e) ==
    LET name == consume(toks, p, "NAME")
        asg == consume(toks, name.pos, "ASSIGN")
        val == parse_value(toks, asg.pos, e)
        semi == consume(toks, val.pos, "SEMICOLON")
    IN  IF name.err # "" THEN name
        ELSE IF asg.err # "" THEN asg
        ELSE IF val.err # "" THEN val
        ELSE IF semi.err # "" THEN semi
        ELSE Ok(semi.pos, dict_setitem(e, name.val.value, val.val))

(***************************************************************************)
(* XML                                                                     *)
(***************************************************************************)

\* the type attribute value_to_xml sets
type_tag(val) == IF IsDict(val) THEN "dict" ELSE "number"

\* value_to_xml: an entry element; text holds the float that str() renders
RECURSIVE value_to_xml(_, _)
value_to_xml(name, val) ==
    [tag |-> "entry", name |-> name, type |-> type_tag(val),
     text |-> IF IsDict(val) THEN <<>> ELSE <<val>>,
     children |-> IF IsDict(val)
                  THEN [i \in 1..Len(val.items) |->
                           value_to_xml(val.items[i].k, val.items[i].v)]
                  ELSE <<>>]

\* to_xml: the config element
to_xml(data) ==
    [tag |-> "config",
     children |-> [i \in 1..Len(data) |-> value_to_xml(data[i].k, data[i].v)]]

(***************************************************************************)
(* Input texts                                                             *)
(*                                                                         *)
(* A phrase is a sequence of token literals; its text joins the literals   *)
(* with single spaces.  Raw texts are concatenations of short pieces and   *)
(* exercise the lexer where tokens touch.                                  *)
(***************************************************************************)

\* statements of a flat program
MaxStmts == 3
\* arguments of a generated expression
MaxArgs == 3
\* entries of a generated dictionary literal
MaxEntries == 2
\* pieces of a raw text
MaxRawLen == 3

RECURSIVE Flatten(_)
Flatten(ss) == IF ss = <<>> THEN <<>> ELSE ss[1] \o Flatten(Tail(ss))

\* the sequences over S of length at most n
SeqsUpTo(S, n) == UNION {[1..k -> S] : k \in 0..n}

\* the literals of a token sequence joined with single spaces
RECURSIVE JoinSp(_)
JoinSp(lits) ==
    IF lits = <<>> THEN <<>>
    ELSE IF Len(lits) = 1 THEN lits[1]
    ELSE lits[1] \o <<" ">> \o JoinSp(Tail(lits))

Literals(toks) == [i \in 1..Len(toks) |-> toks[i].value]

W_abs == <<"a", "b", "s">>
W_min == <<"m", "i", "n">>

\* NAME ASSIGN value SEMICOLON
Stmt(name, value) == <<name, <<":", "=">>>> \o value \o <<<<";">>>>

\* ( op args )
ExprPhrase(op, args) == <<<<"(">>, op>> \o Flatten(args) \o <<<<")">>>>

\* one dictionary entry: key : value, with or without a comma
EntryPhrase(key, value, comma) ==
    <<key, <<":">>>> \o value \o (IF comma THEN <<<<",">>>> ELSE <<>>)

\* ( [ entries ] )
DictPhrase(entries) ==
    <<<<"(">>, <<"[">>>> \o Flatten(entries) \o <<<<"]">>, <<")">>>>

RawPieces ==
    {<<"a">>, W_abs, <<"1">>, <<".">>, <<"e">>, <<"e", "-">>, <<"-">>,
     <<":">>, <<"=">>, <<" ">>}

RawTexts == {Flatten(p) : p \in SeqsUpTo(RawPieces, MaxRawLen)}

FlatStmts ==
    {Stmt(n, <<v>>) : n \in {<<"a">>, <<"b">>},
                      v \in {<<"1">>, <<"2">>, <<"a">>}}

FlatPrograms == {Flatten(p) : p \in SeqsUpTo(FlatStmts, MaxStmts)}

\* a := 2 ; d := ( [ x : 1 ] ) ;
Prelude ==
    Stmt(<<"a">>, <<<<"2">>>>)
    \o Stmt(<<"d">>, DictPhrase(<<EntryPhrase(<<"x">>, <<<<"1">>>>, FALSE)>>))

Ops == {<<"+">>, <<"-">>, W_abs, W_min}

\* a number, a name bound to a number, a name bound to a dictionary
CoreArgs == {<<<<"-", "3">>>>, <<<<"a">>>>, <<<<"d">>>>}

\* an unbound name, a dictionary literal, a nested expression
OtherArgs ==
    {<<<<"x">>>>,
     DictPhrase(<<EntryPhrase(<<"y">>, <<<<"2">>>>, FALSE)>>),
     ExprPhrase(<<"-">>, <<<<<<"-", "3">>>>>>)}

ExprPhrases ==
    {ExprPhrase(op, args) : op \in Ops, args \in SeqsUpTo(CoreArgs, MaxArgs)}
    \cup {ExprPhrase(op, args) :
             op \in Ops,
             args \in {<<v>> : v \in OtherArgs}
                      \cup {<<c, v>> : c \in CoreArgs, v \in OtherArgs}
                      \cup {<<v, c>> : c \in CoreArgs, v \in OtherArgs}}

\* entries holding a number or a bound name
CoreEntries ==
    {EntryPhrase(k, v, c) :
        k \in {<<"x">>, <<"y">>}, v \in {<<<<"1">>>>, <<<<"a">>>>},
        c \in BOOLEAN}

\* entries holding an unbound name (the key of the enclosing dictionary or
\* of an earlier one) or a nested dictionary
OtherEntries ==
    {EntryPhrase(k, v, c) :
        k \in {<<"x">>, <<"y">>},
        v \in {<<<<"x">>>>,
               DictPhrase(<<EntryPhrase(<<"y">>, <<<<"2">>>>, TRUE)>>),
               DictPhrase(<<EntryPhrase(<<"y">>, <<<<"x">>>>, FALSE)>>),
               DictPhrase(<<EntryPhrase(<<"x">>,
                   DictPhrase(<<EntryPhrase(<<"y">>, <<<<"a">>>>, FALSE)>>),
                   FALSE)>>)},
        c \in BOOLEAN}

DictPhrases ==
    {DictPhrase(es) : es \in SeqsUpTo(CoreEntries, MaxEntries)}
    \cup {DictPhrase(es) :
             es \in {<<o>> : o \in OtherEntries}
                    \cup {<<c, o>> : c \in CoreEntries, o \in OtherEntries}
                    \cup {<<o, c>> : c \in CoreEntries, o \in OtherEntries}}

AtomPhrases ==
    {<<<<"1">>>>, <<<<"a">>>>, <<<<"d">>>>, <<<<"x">>>>, <<<<"b">>>>,
     <<<<"(">>>>, <<<<"(">>, <<"2">>, <<")">>>>}

ValuePrograms ==
    {Prelude \o Stmt(<<"b">>, v) :
        v \in ExprPhrases \cup DictPhrases \cup AtomPhrases}

KeywordPrograms ==
    {Stmt(n, <<<<"1">>>>) :
        n \in {W_abs, W_min, W_abs \o <<"x">>, W_min \o <<"a">>,
               <<"x">> \o W_abs}}

ProgramTexts ==
    {JoinSp(p) : p \in FlatPrograms \cup ValuePrograms \cup KeywordPrograms}

Inputs == RawTexts \cup ProgramTexts

\* programs that parse: numbers and bound names only, abs of one argument
ValidArgs ==
    {<<<<"2">>>>, <<<<"a">>>>, ExprPhrase(<<"-">>, <<<<<<"-", "3">>>>>>)}

ValidExprs ==
    {ExprPhrase(op, args) :
        op \in Ops \ {W_abs},
        args \in SeqsUpTo(ValidArgs, MaxArgs) \ {<<>>}}
    \cup {ExprPhrase(W_abs, <<v>>) : v \in ValidArgs}

ValidEntries ==
    {EntryPhrase(<<"x">>, v, c) :
        v \in {<<<<"1">>>>,
               DictPhrase(<<EntryPhrase(<<"y">>, <<<<"2">>>>, TRUE)>>),
               ExprPhrase(<<"+">>, <<<<<<"a">>>>>>)},
        c \in BOOLEAN}

ValidDicts == {DictPhrase(es) : es \in SeqsUpTo(ValidEntries, MaxEntries)}

ValidPrograms ==
    {Prelude \o Stmt(<<"b">>, v) : v \in ValidExprs \cup ValidDicts}

\* every prefix, in whole tokens, of a program that parses
PrefixTexts ==
    UNION {{JoinSp(SubSeq(p, 1, n)) : n \in 0..Len(p)} : p \in ValidPrograms}

(***************************************************************************)
(* main(): tokenize, Parser(tokens).parse(), to_xml                        *)
(***************************************************************************)

NoRoot == [tag |-> "", children |-> <<>>]

StartOn(input) ==
    /\ text = input
    /\ tokens = <<>>
    /\ pos = 0
    /\ env = <<>>
    /\ pc = "tokenize"
    /\ error = ""
    /\ root = NoRoot

Init == \E input \in Inputs : StartOn(input)

InitPrefix == \E input \in PrefixTexts : StartOn(input)

\* tokens = tokenize(text); Parser(tokens)
Tokenize ==
    /\ pc = "tokenize"
    /\ LET r == tokenize(text)
       IN  IF r.err # ""
           THEN /\ pc' = "failed"
                /\ error' = r.err
                /\ UNCHANGED tokens
           ELSE /\ pc' = "parse"
                /\ tokens' = r.tokens
                /\ UNCHANGED error
    /\ UNCHANGED <<text, pos, env, root>>

\* one iteration of the loop of Parser.parse
ParseAssignment ==
    /\ pc = "parse"
    /\ pos < Len(tokens)
    /\ LET r == parse_assignment(tokens, pos, env)
       IN  /\ pos' = r.pos
           /\ IF r.err # ""
              THEN /\ pc' = "failed"
                   /\ error' = r.err
                   /\ UNCHANGED env
              ELSE /\ env' = r.val
                   /\ UNCHANGED <<pc, error>>
    /\ UNCHANGED <<text, tokens, root>>

\* Parser.parse returns self.env
ParseReturn ==
    /\ pc = "parse"
    /\ pos >= Len(tokens)
    /\ pc' = "to_xml"
    /\ UNCHANGED <<text, tokens, pos, env, error, root>>

\* root = to_xml(ast)
ToXml ==
    /\ pc = "to_xml"
    /\ root' = to_xml(env)
    /\ pc' = "done"
    /\ UNCHANGED <<text, tokens, pos, env, error>>

Next == Tokenize \/ ParseAssignment \/ ParseReturn \/ ToXml

Spec == Init /\ [][Next]_vars

SpecPrefix == InitPrefix /\ [][Next]_vars

(***************************************************************************)
(* Reading the token sequence, for the properties below                    *)
(***************************************************************************)

\* the type of the i-th token (1-based), "None" outside the sequence
TypeAt(i) == IF i >= 1 /\ i <= Len(tokens) THEN tokens[i].type ELSE "None"

\* a ParseAssignment step is about to run on the statement after token pos
Parsing == pc = "parse" /\ pos < Len(tokens)

\* in an accepted statement: a NAME that is the target of an assignment
TargetAt(i) == TypeAt(i) = "NAME" /\ TypeAt(i + 1) = "ASSIGN"

\* in an accepted statement: a NAME that is neither a target nor a dict key
ValueNameAt(i) ==
    TypeAt(i) = "NAME" /\ TypeAt(i + 1) \notin {"ASSIGN", "COLON"}

Bound(i) == dict_contains(env, tokens[i].value)

\* the tokens after token p are of these types, in this order
Shape(p, types) == \A i \in 1..Len(types) : TypeAt(p + i) = types[i]

\* the target of the statement after token p
TargetOf(p) == tokens[p + 1].value

\* a NUMBER, or a NAME bound in env: an argument that is a single token
FlatArg(i) == TypeAt(i) = "NUMBER" \/ (TypeAt(i) = "NAME" /\ Bound(i))

ArgVal(i) ==
    IF TypeAt(i) = "NUMBER" THEN float(tokens[i].value)
    ELSE dict_getitem(env, tokens[i].value)

\* the first RPAREN at or after token i (0 when there is none)
CloseParen(i) ==
    IF \E j \in i..Len(tokens) : TypeAt(j) = "RPAREN"
    THEN CHOOSE j \in i..Len(tokens) :
             /\ TypeAt(j) = "RPAREN"
             /\ \A k \in i..(j - 1) : TypeAt(k) # "RPAREN"
    ELSE 0

\* after token p:  NAME := ( op arg ... arg ) ;  with single-token arguments
FlatExprAt(p) ==
    /\ Shape(p, <<"NAME", "ASSIGN", "LPAREN">>)
    /\ TypeAt(p + 4) \in {"OP", "FUNC"}
    /\ CloseParen(p + 5) # 0
    /\ \A i \in (p + 5)..(CloseParen(p + 5) - 1) : FlatArg(i)
    /\ TypeAt(CloseParen(p + 5) + 1) = "SEMICOLON"

\* the operator and the argument values of the expression opening at token l
OpAt(l) == tokens[l + 1].value
ArgsAt(l) == [i \in 1..(CloseParen(l + 2) - l - 2) |-> ArgVal(l + 1 + i)]

\* after token p:  NAME := ( op ( op arg ... arg ) ) ;
NestedExprAt(p) ==
    /\ Shape(p, <<"NAME", "ASSIGN", "LPAREN">>)
    /\ TypeAt(p + 4) \in {"OP", "FUNC"}
    /\ TypeAt(p + 5) = "LPAREN"
    /\ TypeAt(p + 6) \in {"OP", "FUNC"}
    /\ CloseParen(p + 7) # 0
    /\ \A i \in (p + 7)..(CloseParen(p + 7) - 1) : FlatArg(i)
    /\ TypeAt(CloseParen(p + 7) + 1) = "RPAREN"
    /\ TypeAt(CloseParen(p + 7) + 2) = "SEMICOLON"

\* the arguments the table of operators is defined on
Numbers(op, args) ==
    /\ Len(args) >= 1
    /\ \A i \in 1..Len(args) : IsNum(args[i])
    /\ op = W_abs => Len(args) = 1

RECURSIVE Total(_)
Total(args) ==
    IF args = <<>> THEN Rat(0, 1)
    ELSE float_add(Total(SubSeq(args, 1, Len(args) - 1)), args[Len(args)])

Least(args) ==
    CHOOSE v \in {args[i] : i \in 1..Len(args)} :
        \A i \in 1..Len(args) : ~float_lt(args[i], v)

\* the table of operators of the specification
Table(op, args) ==
    IF op = <<"+">> THEN Total(args)
    ELSE IF op = <<"-">> THEN float_sub(args[1], Total(Tail(args)))
    ELSE IF op = W_min THEN Least(args)
    ELSE IF args[1].n < 0 THEN Rat(-args[1].n, args[1].d) ELSE args[1]

\* LBRACKs minus RBRACKs among tokens l..i
Balance(l, i) ==
    Cardinality({j \in l..i : TypeAt(j) = "LBRACK"})
    - Cardinality({j \in l..i : TypeAt(j) = "RBRACK"})

\* the RBRACK closing the dictionary literal that opens at token l
CloseBrack(l) ==
    CHOOSE j \in (l + 2)..Len(tokens) :
        /\ Balance(l, j) = 0
        /\ \A k \in (l + 1)..(j - 1) : Balance(l, k) > 0

\* the keys of the entries of the dictionary literal that opens at token l
KeysAt(l) ==
    {i \in (l + 2)..(CloseBrack(l) - 1) :
        TypeAt(i) = "NAME" /\ TypeAt(i + 1) = "COLON" /\ Balance(l, i) = 1}

\* the elements of a set of numbers in increasing order
RECURSIVE Sorted(_)
Sorted(S) ==
    IF S = {} THEN <<>>
    ELSE LET m == CHOOSE x \in S : \A y \in S : x <= y
         IN  <<m>> \o Sorted(S \ {m})

\* the Mapping a well-formed dictionary literal of numbers, names and
\* dictionaries denotes: one entry per distinct key, in order of first
\* occurrence, holding the value of the key's last occurrence
RECURSIVE ReadDict(_)
ReadDict(l) ==
    LET keys == KeysAt(l)
        first == Sorted({i \in keys :
                     \A j \in keys : j < i => tokens[j].value # tokens[i].value})
        last(i) == CHOOSE j \in keys :
                     /\ tokens[j].value = tokens[i].value
                     /\ \A k \in keys :
                            tokens[k].value = tokens[i].value => k <= j
        read(i) == IF TypeAt(i) = "LPAREN" THEN ReadDict(i) ELSE ArgVal(i)
    IN  Dict([n \in 1..Len(first) |->
                 [k |-> tokens[first[n]].value, v |-> read(last(first[n]) + 2)]])

\* the first SEMICOLON after token p
StmtEnd(p) ==
    CHOOSE j \in (p + 1)..Len(tokens) :
        /\ TypeAt(j) = "SEMICOLON"
        /\ \A k \in (p + 1)..(j - 1) : TypeAt(k) # "SEMICOLON"

\* after token p:  NAME := ( [ ... ] ) ;  of numbers, names and dictionaries
DictStmtAt(p) ==
    /\ Shape(p, <<"NAME", "ASSIGN", "LPAREN", "LBRACK">>)
    /\ \E j \in (p + 1)..Len(tokens) : TypeAt(j) = "SEMICOLON"
    /\ \A i \in (p + 3)..(StmtEnd(p) - 1) : TypeAt(i) \notin {"OP", "FUNC"}

\* names assigned among the first n tokens, in order of first assignment
FirstTargets(n) ==
    LET first == Sorted({i \in 1..n :
                     /\ TargetAt(i)
                     /\ \A j \in 1..(i - 1) :
                            TargetAt(j) => tokens[j].value # tokens[i].value})
    IN  [k \in 1..Len(first) |-> tokens[first[k]].value]

\* an entry element carries the name and the type tag of the value, and a
\* dict entry one such child per item, in order
RECURSIVE Tagged(_, _, _)
Tagged(elem, name, val) ==
    /\ elem.name = name
    /\ elem.type = (IF IsDict(val) THEN "dict" ELSE "number")
    /\ Len(elem.children) = (IF IsDict(val) THEN Len(val.items) ELSE 0)
    /\ \A i \in 1..Len(elem.children) :
           Tagged(elem.children[i], val.items[i].k, val.items[i].v)

(***************************************************************************)
(* Properties                                                              *)
(***************************************************************************)

\* C1: a Name used as a value resolves exactly when it is a key of the
\* Environment built from the statements fully parsed before it.  A statement
\* is accepted only if every value name in it is already bound; a NameError
\* is raised only at an unbound name; and an unbound name at the top level,
\* as the first argument of an expression, as the value of a dictionary entry
\* or of a nested dictionary's entry raises NameError there.
C1_NameResolution ==
    [][Parsing =>
        /\ pc' = "parse" =>
               \A i \in (pos + 1)..pos' : ValueNameAt(i) => Bound(i)
        /\ (pc' = "failed" /\ error' = "NameError") =>
               TypeAt(pos') = "NAME" /\ ~Bound(pos') /\ pos' >= pos + 3
        /\ \A at \in {3, 5, 7, 11} :
               ( /\ \/ at = 3 /\ Shape(pos, <<"NAME", "ASSIGN", "NAME">>)
                    \/ /\ at = 5
                       /\ Shape(pos, <<"NAME", "ASSIGN", "LPAREN">>)
                       /\ TypeAt(pos + 4) \in {"OP", "FUNC"}
                       /\ TypeAt(pos + 5) = "NAME"
                    \/ at = 7 /\ Shape(pos, <<"NAME", "ASSIGN", "LPAREN",
                                   "LBRACK", "NAME", "COLON", "NAME">>)
                    \/ at = 11 /\ Shape(pos, <<"NAME", "ASSIGN", "LPAREN",
                                   "LBRACK", "NAME", "COLON", "LPAREN",
                                   "LBRACK", "NAME", "COLON", "NAME">>)
                 /\ ~Bound(pos + at) )
               => pc' = "failed" /\ error' = "NameError" /\ pos' = pos + at
    ]_vars

\* C1 witness: the self-reference  a := a ;  has raised NameError
C1_Witness ==
    /\ pc = "failed" /\ error = "NameError" /\ pos = 3
    /\ Shape(0, <<"NAME", "ASSIGN", "NAME", "SEMICOLON">>)
    /\ tokens[1].value = tokens[3].value

\* C2: each accepted statement leaves the Environment's keys in the source
\* order of the names' first assignments; re-assigning a bound name keeps its
\* position and every other binding, and a later read sees the newest value.
C2_OrderAndOverwrite ==
    [][(Parsing /\ pc' = "parse") =>
        /\ dict_keys(env') = FirstTargets(pos')
        /\ \A i \in 1..Len(env) :
               /\ env'[i].k = env[i].k
               /\ env[i].k # TargetOf(pos) => env'[i].v = env[i].v
        /\ Shape(pos, <<"NAME", "ASSIGN", "NUMBER", "SEMICOLON">>) =>
               dict_getitem(env', TargetOf(pos)) = float(tokens[pos + 3].value)
        /\ Shape(pos, <<"NAME", "ASSIGN", "NAME", "SEMICOLON">>) =>
               dict_getitem(env', TargetOf(pos))
                   = dict_getitem(env, tokens[pos + 3].value)
    ]_vars

\* C2 witness: a name was re-assigned after another name was first bound,
\* and the parse succeeded
C2_Witness ==
    /\ pc = "done"
    /\ Len(env) = 2
    /\ \E i, j, k \in 1..Len(tokens) :
           /\ i < j /\ j < k
           /\ TargetAt(i) /\ TargetAt(j) /\ TargetAt(k)
           /\ tokens[i].value = tokens[k].value
           /\ tokens[i].value # tokens[j].value
           /\ tokens[i].value = env[1].k
           /\ TypeAt(k + 2) = "NUMBER"
           /\ env[1].v = float(tokens[k + 2].value)

\* C3: an expression whose arguments are n >= 1 Numbers (exactly one for
\* abs) evaluates to the table's result: the sum, the first argument minus
\* the sum of the rest, the minimum, the absolute value; a nested expression
\* is evaluated first and its result is the outer expression's argument.
C3_Evaluation ==
    [][Parsing =>
        /\ (FlatExprAt(pos) /\ Numbers(OpAt(pos + 3), ArgsAt(pos + 3))) =>
               /\ pc' = "parse"
               /\ dict_getitem(env', TargetOf(pos))
                      = Table(OpAt(pos + 3), ArgsAt(pos + 3))
        /\ (NestedExprAt(pos) /\ Numbers(OpAt(pos + 5), ArgsAt(pos + 5))) =>
               /\ pc' = "parse"
               /\ dict_getitem(env', TargetOf(pos))
                      = Table(OpAt(pos + 3),
                              <<Table(OpAt(pos + 5), ArgsAt(pos + 5))>>)
    ]_vars

\* C3 witness:  b := ( abs ( - -3 ) ) ;  was accepted and bound b to 3
C3_Witness ==
    /\ pc = "done"
    /\ NestedExprAt(Len(Prelude))
    /\ OpAt(Len(Prelude) + 3) = W_abs
    /\ OpAt(Len(Prelude) + 5) = <<"-">>
    /\ Len(ArgsAt(Len(Prelude) + 5)) = 1
    /\ dict_getitem(env, <<"b">>) = Rat(3, 1)

\* C4: a token sequence that is left unclosed or ends where a token is
\* required (here: a prefix, not ending in a Semicolon, of a program that
\* parses) fails with SyntaxError: no Environment is returned and no other
\* error is raised.
C4_UnclosedIsSyntaxError ==
    (/\ tokens # <<>>
     /\ TypeAt(Len(tokens)) # "SEMICOLON"
     /\ pc \notin {"tokenize", "parse"})
    => (pc = "failed" /\ error = "SyntaxError")

\* C5: abs with no argument or with more than one argument is rejected with
\* SyntaxError.
C5_AbsArity ==
    [][(/\ Parsing
        /\ FlatExprAt(pos)
        /\ OpAt(pos + 3) = W_abs
        /\ Len(ArgsAt(pos + 3)) # 1)
       => (pc' = "failed" /\ error' = "SyntaxError")
    ]_vars

\* C6: an expression with a dictionary among its arguments is rejected with
\* an error, for every operator and argument count, and the value of an
\* expression is never a Mapping.
C6_NumberArguments ==
    [][Parsing =>
        /\ (/\ FlatExprAt(pos)
            /\ \E i \in 1..Len(ArgsAt(pos + 3)) : IsDict(ArgsAt(pos + 3)[i]))
           => pc' = "failed"
        /\ (/\ Shape(pos, <<"NAME", "ASSIGN", "LPAREN">>)
            /\ TypeAt(pos + 4) \in {"OP", "FUNC"}
            /\ pc' = "parse")
           => IsNum(dict_getitem(env', TargetOf(pos)))
    ]_vars

\* C7: re-lexing the token literals joined with single spaces succeeds and
\* yields the same tokens (kinds and literals).
C7_TokenizeIdempotent ==
    pc = "parse" =>
        tokenize(JoinSp(Literals(tokens))) = [err |-> "", tokens |-> tokens]

\* C7 witness: a text lexed to several tokens that differs from the joined
\* literals (tokens touch in it, or it holds other whitespace)
C7_Witness ==
    /\ pc = "parse"
    /\ Len(tokens) >= 3
    /\ Len(text) < Len(JoinSp(Literals(tokens)))

\* C8: abs and min are lexed as Func, never as Name; a statement whose
\* target is abs or min fails with SyntaxError; no Environment has a binding
\* named abs or min.
C8_ReservedWords ==
    /\ \A i \in 1..Len(tokens) :
           tokens[i].value \in {W_abs, W_min} => tokens[i].type = "FUNC"
    /\ \A i \in 1..Len(env) : env[i].k \notin {W_abs, W_min}
    /\ (/\ Len(tokens) >= 2
        /\ tokens[1].value \in {W_abs, W_min}
        /\ tokens[2].type = "ASSIGN")
       => \/ pc = "parse" /\ pos = 0
          \/ pc = "failed" /\ error = "SyntaxError" /\ pos = 0

\* C8 witness:  abs := 1 ;  has failed with SyntaxError at its first token
C8_Witness ==
    /\ pc = "failed" /\ error = "SyntaxError" /\ pos = 0
    /\ Len(tokens) = 4
    /\ tokens[1] = Token("FUNC", W_abs)
    /\ Shape(1, <<"ASSIGN", "NUMBER", "SEMICOLON">>)

\* C9: a Func token is produced only for the whole word abs or min: a text
\* that is one run of lowercase letters lexes to a single token carrying the
\* whole word, a Func for abs and min and a Name for every other word.
C9_FuncWholeWord ==
    (/\ pc = "parse"
     /\ text # <<>>
     /\ \A i \in 1..Len(text) : text[i] \in Lower)
    => tokens = <<Token(IF text \in {W_abs, W_min} THEN "FUNC" ELSE "NAME",
                        text)>>

\* C10: a value opening with LParen is a dictionary exactly when the next
\* token is LBracket and an expression otherwise; a well-formed dictionary
\* literal parses to the Mapping with one entry per distinct key, in order of
\* first occurrence, holding its last value, nested dictionaries kept as
\* nested Mappings; the serializer tags a Mapping entry dict and a Number
\* entry number.
C10_Dictionaries ==
    [][/\ (Parsing /\ Shape(pos, <<"NAME", "ASSIGN", "LPAREN">>)) =>
           /\ (TypeAt(pos + 4) \notin {"LBRACK", "OP", "FUNC", "None"}) =>
                  pc' = "failed" /\ error' = "SyntaxError" /\ pos' = pos + 3
           /\ (TypeAt(pos + 4) = "LBRACK" /\ pc' = "parse") =>
                  IsDict(dict_getitem(env', TargetOf(pos)))
           /\ (DictStmtAt(pos) /\ pc' = "parse") =>
                  dict_getitem(env', TargetOf(pos)) = ReadDict(pos + 3)
       /\ pc' = "done" =>
           /\ Len(root'.children) = Len(env)
           /\ \A i \in 1..Len(env) :
                  Tagged(root'.children[i], env[i].k, env[i].v)
    ]_vars

\* C10 witness: a literal with the key x twice, the second time holding a
\* dictionary that holds a dictionary, was accepted and serialized
C10_Witness ==
    /\ pc = "done"
    /\ Len(root.children) = 3
    /\ DictStmtAt(Len(Prelude))
    /\ Cardinality(KeysAt(Len(Prelude) + 3)) = 2
    /\ Len(root.children[3].children) = 1
    /\ root.children[3].children[1].type = "dict"
    /\ root.children[3].children[1].children[1].type = "dict"
    /\ root.children[3].children[1].children[1].children[1].type = "number"

====
